---- MODULE Spec2Model ----
(***************************************************************************)
(* Masterblog API (src/backend/backend_app.py): the in-memory post store   *)
(* POSTS and its five Flask handlers get_posts, add_post, delete_post,     *)
(* update_post and search_posts.                                           *)
(*                                                                         *)
(* Text is a sequence of code points, so that str.lower(), the substring   *)
(* test `in` and the ordering of str are computed rather than assumed.     *)
(*                                                                         *)
(*   Spec      the handlers run one request at a time                      *)
(*   SpecHist  as Spec, and records the ids removed by successful deletes  *)
(*   SpecConc  two requests served by two threads of the development       *)
(*             server, interleaved between the handlers' statements        *)
(***************************************************************************)
EXTENDS Integers, Sequences, FiniteSets, TLC

VARIABLES
    posts,      \* POSTS: the list of post dicts, in list order
    req,        \* the request served last (one request at a time)
    resp,       \* the response to it: status and JSON body
    deleted,    \* history: ids removed by a successful delete (SpecHist)
    pc,         \* SpecConc: per thread, the statement it is about to run
    loc         \* SpecConc: per thread, its request, locals and response

vars == <<posts, req, resp, deleted, pc, loc>>

(***************************************************************************)
(* Bounds of the model.                                                    *)
(***************************************************************************)
\* add_post is not taken once it would assign an id above MaxId
MaxId == 3

(***************************************************************************)
(* Text                                                                    *)
(***************************************************************************)
\* "First post"
FirstTitle == <<70, 105, 114, 115, 116, 32, 112, 111, 115, 116>>
\* "Second post"
SecondTitle == <<83, 101, 99, 111, 110, 100, 32, 112, 111, 115, 116>>
\* "This is the first post."
FirstContent ==
    <<84, 104, 105, 115, 32, 105, 115, 32, 116, 104, 101, 32,
      102, 105, 114, 115, 116, 32, 112, 111, 115, 116, 46>>
\* "This is the second post."
SecondContent ==
    <<84, 104, 105, 115, 32, 105, 115, 32, 116, 104, 101, 32,
      115, 101, 99, 111, 110, 100, 32, 112, 111, 115, 116, 46>>

\* titles a client sends: "aB", "Ab"
Titles == {<<97, 66>>, <<65, 98>>}
\* contents a client sends: "b"
Contents == {<<98>>}
\* search queries for the title: "", "b", "Ab", "Fi"
TitleQueries == {<<>>, <<98>>, <<65, 98>>, <<70, 105>>}
\* search queries for the content: "", "B", "SEC"
ContentQueries == {<<>>, <<66>>, <<83, 69, 67>>}

\* str.lower() on one ASCII character
LowerChar(c) == IF c \in 65..90 THEN c + 32 ELSE c

\* str.lower()
Lower(s) == [i \in 1..Len(s) |-> LowerChar(s[i])]

\* needle in hay (str.__contains__): the empty needle is in every string
Contains(hay, needle) ==
    \E i \in 0..(Len(hay) - Len(needle)) :
        SubSeq(hay, i + 1, i + Len(needle)) = needle

\* a < b for str: the first differing code point decides, a proper prefix is less
StrLess(a, b) ==
    \E k \in 1..(Len(b)) :
        /\ k <= Len(a) + 1
        /\ \A j \in 1..(k - 1) : a[j] = b[j]
        /\ (k = Len(a) + 1 \/ a[k] < b[k])

Reverse(s) == [i \in 1..Len(s) |-> s[Len(s) + 1 - i]]

(***************************************************************************)
(* The store                                                               *)
(***************************************************************************)
Post(i, t, c) == [id |-> i, title |-> t, content |-> c]

SeedPosts ==
    << Post(1, FirstTitle, FirstContent), Post(2, SecondTitle, SecondContent) >>

\* request.args.get(name) when the parameter is absent
None == "None"

Fields == {"title", "content"}

Ids(ps) == {ps[i].id : i \in 1..Len(ps)}

\* ids a client names in a path
RequestIds == (1..MaxId) \cup {99}

\* JSON bodies of add_post: an object with any of title, content
Payloads ==
    UNION {[D -> Titles \cup Contents] : D \in SUBSET Fields}

WellTyped(d) ==
    /\ ("title" \in DOMAIN d => d["title"] \in Titles)
    /\ ("content" \in DOMAIN d => d["content"] \in Contents)

JsonBodies == {d \in Payloads : WellTyped(d)}

Response(status, body) == [status |-> status, body |-> body]

(***************************************************************************)
(* get_posts                                                               *)
(***************************************************************************)
\* key=lambda post: post[sort_field].lower()
SortKey(p, sortField) == Lower(p[sortField])

\* one insertion of a stable ascending sort: p goes behind every element
\* whose key is not greater than its own
RECURSIVE Insert(_, _, _)
Insert(p, s, sortField) ==
    IF s = <<>> THEN <<p>>
    ELSE IF StrLess(SortKey(p, sortField), SortKey(s[1], sortField))
         THEN <<p>> \o s
         ELSE <<s[1]>> \o Insert(p, Tail(s), sortField)

\* list.sort(key=...) ascending: stable
RECURSIVE SortAscending(_, _)
SortAscending(s, sortField) ==
    IF s = <<>> THEN <<>>
    ELSE Insert(s[Len(s)], SortAscending(SubSeq(s, 1, Len(s) - 1), sortField),
                sortField)

\* fault for SortedListIsStable: a reverse sort that only reverses the
\* ascending result, which turns the ties round
ListSortReversing(s, sortField, reverse) ==
    IF reverse THEN Reverse(SortAscending(s, sortField))
    ELSE SortAscending(s, sortField)

\* list.sort(key=..., reverse=...): the reverse sort reverses the list, sorts
\* it ascending and reverses the result, which keeps ties in their order
ListSort(s, sortField, reverse) ==
    IF reverse THEN Reverse(SortAscending(Reverse(s), sortField))
    ELSE SortAscending(s, sortField)

\* the body get_posts returns for the list ps
SortedPosts(ps, sortField, direction) ==
    IF sortField # None THEN ListSort(ps, sortField, direction = "desc") ELSE ps

\* fault for InsertionOrderKept: get_posts sorting POSTS itself, not a copy
SortInPlace(ps, sortField, direction) == SortedPosts(ps, sortField, direction)

\* POSTS after get_posts: the handler sorts a copy
PostsAfterList(ps, sortField, direction) == ps

SortArgs == {None, "title", "content", "author"}
DirectionArgs == {None, "asc", "desc", "up"}

GetPostsResponse(ps, sortField, direction) ==
    IF sortField # None /\ sortField \notin {"title", "content"}
    THEN Response(400,
             [error |-> "Invalid sort field. Must be \"title\" or \"content\"."])
    ELSE IF direction # None /\ direction \notin {"asc", "desc"}
    THEN Response(400,
             [error |-> "Invalid direction. Must be \"asc\" or \"desc\"."])
    ELSE Response(200, SortedPosts(ps, sortField, direction))

GetPosts(sortField, direction) ==
    /\ req' = [op |-> "list", sort |-> sortField, direction |-> direction]
    /\ resp' = GetPostsResponse(posts, sortField, direction)
    /\ posts' = IF resp'.status = 200
                THEN PostsAfterList(posts, sortField, direction)
                ELSE posts

(***************************************************************************)
(* add_post                                                                *)
(***************************************************************************)
Max(S) == CHOOSE m \in S : \A n \in S : n <= m

\* fault for UniqueIds: new_id = len(POSTS) + 1
NewIdByCount(ps) == Len(ps) + 1

\* new_id = max(post['id'] for post in POSTS) + 1 if POSTS else 1
NewId(ps) == IF ps # <<>> THEN Max(Ids(ps)) + 1 ELSE 1

\* not data or 'title' not in data or 'content' not in data
MissingField(data) ==
    DOMAIN data = {} \/ "title" \notin DOMAIN data \/ "content" \notin DOMAIN data

\* fault for CreateAppendsNextId: POSTS.insert(0, new_post)
PrependPost(ps, newPost) == <<newPost>> \o ps

\* POSTS.append(new_post)
AppendPost(ps, newPost) == Append(ps, newPost)

AddPost(data) ==
    /\ req' = [op |-> "create", data |-> data]
    /\ IF MissingField(data)
       THEN /\ resp' = Response(400, [error |-> "Missing title or content"])
            /\ posts' = posts
       ELSE /\ NewId(posts) <= MaxId
            /\ LET newPost == Post(NewId(posts), data["title"], data["content"])
               IN  /\ posts' = AppendPost(posts, newPost)
                   /\ resp' = Response(201, newPost)

(***************************************************************************)
(* delete_post                                                             *)
(***************************************************************************)
\* fault for UnknownIdIsNotFound: the id taken for a place in the list
FindPostByPlace(ps, postId) == IF postId \in 1..Len(ps) THEN postId ELSE 0

\* next((post for post in POSTS if post['id'] == post_id), None): the place
\* of the first post with the id, 0 for None
FindPost(ps, postId) ==
    IF \E i \in 1..Len(ps) : ps[i].id = postId
    THEN CHOOSE i \in 1..Len(ps) :
             /\ ps[i].id = postId
             /\ \A j \in 1..(i - 1) : ps[j].id # postId
    ELSE 0

NotFound(postId) ==
    Response(404,
        [error |-> "Post with id " \o ToString(postId) \o " not found."])

\* the place list.remove(x) removes: the first element equal to x, 0 when
\* there is none (ValueError)
FirstEqual(ps, x) ==
    IF \E i \in 1..Len(ps) : ps[i] = x
    THEN CHOOSE i \in 1..Len(ps) :
             /\ ps[i] = x
             /\ \A j \in 1..(i - 1) : ps[j] # x
    ELSE 0

RemoveAt(ps, k) == SubSeq(ps, 1, k - 1) \o SubSeq(ps, k + 1, Len(ps))

\* POSTS.remove(post_to_delete), post_to_delete being in the list
ListRemove(ps, x) == RemoveAt(ps, FirstEqual(ps, x))

DeletePost(postId) ==
    /\ req' = [op |-> "delete", id |-> postId]
    /\ LET k == FindPost(posts, postId)
       IN  IF k = 0
           THEN /\ resp' = NotFound(postId)
                /\ posts' = posts
           ELSE /\ posts' = ListRemove(posts, posts[k])
                /\ resp' = Response(200,
                       [message |-> "Post with id " \o ToString(postId)
                                    \o " has been deleted successfully."])

(***************************************************************************)
(* update_post                                                             *)
(***************************************************************************)
\* fault for UpdateOnlySupplied: data.get(field, '')
GetOrEmpty(data, field, default) ==
    IF field \in DOMAIN data THEN data[field] ELSE <<>>

\* data.get(field, post_to_update[field])
GetOr(data, field, default) ==
    IF field \in DOMAIN data THEN data[field] ELSE default

UpdatePost(postId, data) ==
    /\ req' = [op |-> "update", id |-> postId, data |-> data]
    /\ LET k == FindPost(posts, postId)
       IN  IF k = 0
           THEN /\ resp' = NotFound(postId)
                /\ posts' = posts
           ELSE LET title == GetOr(data, "title", posts[k].title)
                    content == GetOr(data, "content", posts[k].content)
                IN  /\ posts' = [posts EXCEPT ![k].title = title,
                                              ![k].content = content]
                    /\ resp' = Response(200, Post(postId, title, content))

(***************************************************************************)
(* search_posts                                                            *)
(***************************************************************************)
\* fault for SearchReturnsMatches: title_query in post['title'].lower(),
\* without the test that the query is not empty
FieldMatchEmptyToo(query, text) == Contains(Lower(text), query)

\* title_query and title_query in post['title'].lower()
FieldMatch(query, text) == query # <<>> /\ Contains(Lower(text), query)

\* the loop over POSTS: matched_posts after the first n posts
RECURSIVE MatchedPosts(_, _, _, _)
MatchedPosts(ps, titleQuery, contentQuery, n) ==
    IF n = 0 THEN <<>>
    ELSE LET matched == MatchedPosts(ps, titleQuery, contentQuery, n - 1)
             post == ps[n]
         IN  IF \/ FieldMatch(titleQuery, post.title)
                \/ FieldMatch(contentQuery, post.content)
             THEN Append(matched, post)
             ELSE matched

\* fault for CreateThenSearchSubstring: the queries compared as sent, not
\* lower-cased
SearchResultCaseSensitive(ps, titleArg, contentArg) ==
    MatchedPosts(ps, titleArg, contentArg, Len(ps))

\* the body search_posts returns for the query parameters as sent
SearchResult(ps, titleArg, contentArg) ==
    MatchedPosts(ps, Lower(titleArg), Lower(contentArg), Len(ps))

SearchPosts(titleArg, contentArg) ==
    /\ req' = [op |-> "search", title |-> titleArg, content |-> contentArg]
    /\ resp' = Response(200, SearchResult(posts, titleArg, contentArg))
    /\ posts' = posts

(***************************************************************************)
(* One request at a time                                                   *)
(***************************************************************************)
\* the development server of app.run() serves each request in its own thread
Threads == {"t1", "t2"}

Idle == [op |-> "none"]

\* a thread's request, its locals and its response:
\*   ref      the place in POSTS of the dict post_to_delete / post_to_update
\*            refers to, 0 once that dict is in POSTS no more
\*   obj      that dict, once it is in POSTS no more
\*   newId, title, content   the locals new_id, title, content
NoLocals ==
    [req |-> Idle, ref |-> 0, obj |-> Idle, newId |-> 0,
     title |-> <<>>, content |-> <<>>, resp |-> Response(0, <<>>)]

Init ==
    /\ posts = SeedPosts
    /\ req = Idle
    /\ resp = Response(0, <<>>)
    /\ deleted = {}
    /\ pc = [t \in Threads |-> "idle"]
    /\ loc = [t \in Threads |-> NoLocals]

\* a request served on its own
Serve(A) == A /\ UNCHANGED <<deleted, pc, loc>>

Next ==
    \/ \E s \in SortArgs, d \in DirectionArgs : Serve(GetPosts(s, d))
    \/ \E data \in JsonBodies : Serve(AddPost(data))
    \/ \E i \in RequestIds : Serve(DeletePost(i))
    \/ \E i \in RequestIds, data \in JsonBodies : Serve(UpdatePost(i, data))
    \/ \E t \in TitleQueries, c \in ContentQueries : Serve(SearchPosts(t, c))

Spec == Init /\ [][Next]_vars

(***************************************************************************)
(* One request at a time, with the history of deleted ids                  *)
(***************************************************************************)
\* a request served on its own; a delete answered 200 is recorded
ServeRecorded(A) ==
    /\ A
    /\ deleted' = IF req'.op = "delete" /\ resp'.status = 200
                  THEN deleted \cup {req'.id}
                  ELSE deleted
    /\ UNCHANGED <<pc, loc>>

NextHist ==
    \/ \E s \in SortArgs, d \in DirectionArgs : ServeRecorded(GetPosts(s, d))
    \/ \E data \in JsonBodies : ServeRecorded(AddPost(data))
    \/ \E i \in RequestIds : ServeRecorded(DeletePost(i))
    \/ \E i \in RequestIds, data \in JsonBodies :
           ServeRecorded(UpdatePost(i, data))
    \/ \E t \in TitleQueries, c \in ContentQueries :
           ServeRecorded(SearchPosts(t, c))

SpecHist == Init /\ [][NextHist]_vars

(***************************************************************************)
(* Two requests served concurrently.  A thread runs its handler statement  *)
(* by statement and another thread may run between two of them.  get_posts *)
(* and search_posts, and the statements of one step, run here without      *)
(* interruption: the behaviours of SpecConc are behaviours of the server,  *)
(* which has more.                                                         *)
(***************************************************************************)
Requests ==
    {[op |-> "list", sort |-> s, direction |-> d] :
         s \in SortArgs, d \in DirectionArgs}
    \cup {[op |-> "create", data |-> data] : data \in JsonBodies}
    \cup {[op |-> "delete", id |-> i] : i \in RequestIds}
    \cup {[op |-> "update", id |-> i, data |-> data] :
              i \in RequestIds, data \in JsonBodies}
    \cup {[op |-> "search", title |-> t, content |-> c] :
              t \in TitleQueries, c \in ContentQueries}

\* the first statement of the handler the request is routed to
Entry(r) ==
    CASE r.op = "list" -> "get_posts"
      [] r.op = "create" -> "add_post_51"
      [] r.op = "delete" -> "delete_post_70"
      [] r.op = "update" -> "update_post_84"
      [] r.op = "search" -> "search_posts"

Finish(t, response) ==
    /\ pc' = [pc EXCEPT ![t] = "done"]
    /\ loc' = [loc EXCEPT ![t].resp = response]

\* the dict the thread's reference refers to
Object(t) == IF loc[t].ref # 0 THEN posts[loc[t].ref] ELSE loc[t].obj

\* the references of the threads after POSTS lost the dict at place j
Removed(j) ==
    [u \in Threads |->
        IF loc[u].ref > j THEN [loc[u] EXCEPT !.ref = loc[u].ref - 1]
        ELSE IF loc[u].ref = j
             THEN [loc[u] EXCEPT !.ref = 0, !.obj = posts[j]]
             ELSE loc[u]]

Receive(t, r) ==
    /\ pc[t] = "idle"
    /\ pc' = [pc EXCEPT ![t] = Entry(r)]
    /\ loc' = [loc EXCEPT ![t].req = r]
    /\ UNCHANGED posts

\* get_posts, lines 21-42
GetPostsRun(t) ==
    /\ pc[t] = "get_posts"
    /\ LET r == loc[t].req
           response == GetPostsResponse(posts, r.sort, r.direction)
       IN  /\ Finish(t, response)
           /\ posts' = IF response.status = 200
                       THEN PostsAfterList(posts, r.sort, r.direction)
                       ELSE posts

\* add_post, lines 51-55: the payload is checked and new_id computed
AddPostNewId(t) ==
    /\ pc[t] = "add_post_51"
    /\ IF MissingField(loc[t].req.data)
       THEN Finish(t, Response(400, [error |-> "Missing title or content"]))
       ELSE /\ pc' = [pc EXCEPT ![t] = "add_post_56"]
            /\ loc' = [loc EXCEPT ![t].newId = NewId(posts)]
    /\ UNCHANGED posts

\* add_post, lines 56-62: the post is built and appended
AddPostAppend(t) ==
    /\ pc[t] = "add_post_56"
    /\ LET data == loc[t].req.data
           newPost == Post(loc[t].newId, data["title"], data["content"])
       IN  /\ posts' = AppendPost(posts, newPost)
           /\ Finish(t, Response(201, newPost))

\* delete_post and update_post, lines 70-72 and 84-86: the post is looked up
Lookup(t) ==
    /\ pc[t] \in {"delete_post_70", "update_post_84"}
    /\ LET k == FindPost(posts, loc[t].req.id)
       IN  IF k = 0
           THEN Finish(t, NotFound(loc[t].req.id))
           ELSE /\ pc' = [pc EXCEPT ![t] = IF pc[t] = "delete_post_70"
                                           THEN "delete_post_74"
                                           ELSE "update_post_88"]
                /\ loc' = [loc EXCEPT ![t].ref = k]
    /\ UNCHANGED posts

\* delete_post, lines 74-75: list.remove takes out the first dict equal to
\* post_to_delete and raises ValueError when there is none (a 500 response)
DeletePostRemove(t) ==
    /\ pc[t] = "delete_post_74"
    /\ LET j == FirstEqual(posts, Object(t))
           i == loc[t].req.id
       IN  IF j = 0
           THEN /\ Finish(t, Response(500, [error |-> "ValueError"]))
                /\ UNCHANGED posts
           ELSE /\ posts' = RemoveAt(posts, j)
                /\ pc' = [pc EXCEPT ![t] = "done"]
                /\ loc' = [Removed(j) EXCEPT ![t].resp =
                              Response(200,
                                  [message |-> "Post with id " \o ToString(i)
                                      \o " has been deleted successfully."])]

\* update_post, lines 88-90: title and content from the payload or the post
UpdatePostRead(t) ==
    /\ pc[t] = "update_post_88"
    /\ pc' = [pc EXCEPT ![t] = "update_post_92"]
    /\ LET data == loc[t].req.data
       IN  loc' = [loc EXCEPT
                      ![t].title = GetOr(data, "title", Object(t).title),
                      ![t].content = GetOr(data, "content", Object(t).content)]
    /\ UNCHANGED posts

\* update_post, line 92: post_to_update['title'] = title
UpdatePostTitle(t) ==
    /\ pc[t] = "update_post_92"
    /\ pc' = [pc EXCEPT ![t] = "update_post_93"]
    /\ IF loc[t].ref # 0
       THEN /\ posts' = [posts EXCEPT ![loc[t].ref].title = loc[t].title]
            /\ UNCHANGED loc
       ELSE /\ loc' = [loc EXCEPT ![t].obj.title = loc[t].title]
            /\ UNCHANGED posts

\* update_post, lines 93-99: post_to_update['content'] = content, the response
UpdatePostContent(t) ==
    /\ pc[t] = "update_post_93"
    /\ pc' = [pc EXCEPT ![t] = "done"]
    /\ LET response ==
               Response(200, Post(loc[t].req.id, loc[t].title, loc[t].content))
       IN  IF loc[t].ref # 0
           THEN /\ posts' = [posts EXCEPT ![loc[t].ref].content = loc[t].content]
                /\ loc' = [loc EXCEPT ![t].resp = response]
           ELSE /\ loc' = [loc EXCEPT ![t].obj.content = loc[t].content,
                                      ![t].resp = response]
                /\ UNCHANGED posts

\* search_posts, lines 108-120
SearchPostsRun(t) ==
    /\ pc[t] = "search_posts"
    /\ LET r == loc[t].req
       IN  Finish(t, Response(200, SearchResult(posts, r.title, r.content)))
    /\ UNCHANGED posts

\* a step of a thread: the last request and response of Spec are not in use
Run(A) == A /\ UNCHANGED <<req, resp, deleted>>

NextConc ==
    \/ \E t \in Threads, r \in Requests : Run(Receive(t, r))
    \/ \E t \in Threads : Run(GetPostsRun(t))
    \/ \E t \in Threads : Run(AddPostNewId(t))
    \/ \E t \in Threads : Run(AddPostAppend(t))
    \/ \E t \in Threads : Run(Lookup(t))
    \/ \E t \in Threads : Run(DeletePostRemove(t))
    \/ \E t \in Threads : Run(UpdatePostRead(t))
    \/ \E t \in Threads : Run(UpdatePostTitle(t))
    \/ \E t \in Threads : Run(UpdatePostContent(t))
    \/ \E t \in Threads : Run(SearchPostsRun(t))

SpecConc == Init /\ [][NextConc]_vars

(***************************************************************************)
(* Properties of the store, one request at a time                          *)
(***************************************************************************)
Range(s) == {s[i] : i \in 1..Len(s)}

IdsInOrder(ps) == [k \in 1..Len(ps) |-> ps[k].id]

Created == req.op = "create" /\ resp.status = 201

\* C1: once a successful delete has removed the post with id i, no post with
\* id i is in the collection again, nor in the body of a later list or search.
IdsNeverReused ==
    /\ \A i \in deleted : i \notin Ids(posts)
    /\ (req.op \in {"list", "search"} /\ resp.status = 200) =>
           \A i \in deleted : i \notin Ids(resp.body)

\* C2: no two posts of the collection have the same id.
UniqueIds ==
    \A i, j \in 1..Len(posts) : i # j => posts[i].id # posts[j].id

\* a create into a collection that a delete has left without its first post
UniqueIdsWitness ==
    /\ Created
    /\ Len(posts) >= 2
    /\ posts[1].id # 1

\* C4: a create with title and content answers 201 with the stored post, whose
\* id is 1 + the greatest id of the collection (1 when it is empty) and which
\* is appended behind the unchanged posts; from the seed state the id is 3.
CreateAppendsNextId ==
    [][(req'.op = "create" /\ Fields \subseteq DOMAIN req'.data) =>
          LET new == resp'.body
              n == Len(posts)
          IN  /\ resp'.status = 201
              /\ new = [id |-> new.id, title |-> req'.data["title"],
                        content |-> req'.data["content"]]
              /\ (n = 0 => new.id = 1)
              /\ (n > 0 => /\ \E k \in 1..n : new.id = posts[k].id + 1
                           /\ \A k \in 1..n : posts[k].id < new.id)
              /\ (posts = SeedPosts => new.id = 3)
              /\ Len(posts') = n + 1
              /\ \A k \in 1..n : posts'[k] = posts[k]
              /\ posts'[n + 1] = new]_vars

\* the create of the scenario: the third post behind the two seed posts
CreateAppendsNextIdWitness ==
    /\ Created
    /\ Len(posts) = 3
    /\ SubSeq(posts, 1, 2) = SeedPosts
    /\ resp.body.id = 3
    /\ posts[3] = resp.body

\* the substrings of t, the empty one among them
Substrings(t) == {SubSeq(t, i, j) : i \in 1..(Len(t) + 1), j \in 0..Len(t)}

\* C5 as stated: a search that follows a create and whose title query is, in
\* any letter case, a substring of the created title returns the created post.
CreateThenSearchAnySubstring ==
    [][(/\ Created
        /\ req'.op = "search"
        /\ \E s \in Substrings(req.data["title"]) : Lower(s) = Lower(req'.title))
       => resp.body \in Range(resp'.body)]_vars

\* C5 amended: the same for the substrings that are not empty.
CreateThenSearchSubstring ==
    [][(/\ Created
        /\ req'.op = "search"
        /\ \E s \in Substrings(req.data["title"]) \ {<<>>} :
               Lower(s) = Lower(req'.title))
       => resp.body \in Range(resp'.body)]_vars

\* the search for "Ab" alone that returns the post last created as "aB"
CreateThenSearchWitness ==
    /\ req = [op |-> "search", title |-> <<65, 98>>, content |-> <<>>]
    /\ Len(posts) = 3
    /\ posts[3].title = <<97, 66>>
    /\ posts[3] \in Range(resp.body)

\* C6: a delete or an update that names an id not in the collection answers
\* 404 with the error naming the id, and leaves the collection as it was.
UnknownIdIsNotFound ==
    [][(req'.op \in {"delete", "update"} /\ req'.id \notin Ids(posts)) =>
          /\ resp'.status = 404
          /\ resp'.body =
                 [error |-> "Post with id " \o ToString(req'.id) \o " not found."]
          /\ (req'.id = 99 => resp'.body.error = "Post with id 99 not found.")
          /\ posts' = posts]_vars

\* DELETE /api/posts/99 answered 404, with a collection a delete has changed
UnknownIdIsNotFoundWitness ==
    /\ req = [op |-> "delete", id |-> 99]
    /\ resp.status = 404
    /\ Len(posts) = 1
    /\ posts[1].id = 2

\* C7: an update of an existing post overwrites the supplied fields only; the
\* post's id and place and every other post stay, and the response carries
\* the id with the resulting title and content.
UpdateOnlySupplied ==
    [][(req'.op = "update" /\ req'.id \in Ids(posts)) =>
          /\ resp'.status = 200
          /\ Len(posts') = Len(posts)
          /\ \A k \in 1..Len(posts) :
                IF posts[k].id # req'.id THEN posts'[k] = posts[k]
                ELSE /\ posts'[k].id = posts[k].id
                     /\ posts'[k].title =
                            IF "title" \in DOMAIN req'.data
                            THEN req'.data["title"] ELSE posts[k].title
                     /\ posts'[k].content =
                            IF "content" \in DOMAIN req'.data
                            THEN req'.data["content"] ELSE posts[k].content
                     /\ resp'.body = [id |-> req'.id,
                                      title |-> posts'[k].title,
                                      content |-> posts'[k].content]]_vars

\* an update of the title alone of the second seed post, its content kept
UpdateOnlySuppliedWitness ==
    /\ req.op = "update"
    /\ req.id = 2
    /\ DOMAIN req.data = {"title"}
    /\ resp.status = 200
    /\ Len(posts) = 2
    /\ posts[2].title = req.data["title"]
    /\ posts[2].content = SecondContent

\* C8: a list without sort returns the collection as it is, and the
\* collection keeps the order of creation: a list or a search leaves it as it
\* was, an update keeps every post's place, a delete removes the one post with
\* the id and a create only appends.
InsertionOrderKept ==
    [][/\ (req'.op = "list" /\ req'.sort = None /\ resp'.status = 200) =>
              resp'.body = posts
       /\ req'.op \in {"list", "search"} => posts' = posts
       /\ req'.op = "update" => IdsInOrder(posts') = IdsInOrder(posts)
       /\ (req'.op = "delete" /\ resp'.status = 200) =>
              \E k \in 1..Len(posts) :
                  /\ posts[k].id = req'.id
                  /\ posts' = SubSeq(posts, 1, k - 1)
                                  \o SubSeq(posts, k + 1, Len(posts))
       /\ (req'.op = "delete" /\ resp'.status # 200) => posts' = posts
       /\ req'.op = "create" =>
              \/ posts' = posts
              \/ /\ Len(posts') = Len(posts) + 1
                 /\ SubSeq(posts', 1, Len(posts)) = posts]_vars

\* a sorted list whose body is in another order than the collection
InsertionOrderKeptWitness ==
    /\ req.op = "list"
    /\ req.sort = "title"
    /\ resp.status = 200
    /\ Len(posts) = 3
    /\ resp.body # posts

\* out is ps in the order of the field, ties in the order of ps
StablySorted(ps, out, sortField, descending) ==
    /\ Len(out) = Len(ps)
    /\ \E f \in Permutations(1..Len(ps)) :
          /\ \A i \in 1..Len(ps) : out[i] = ps[f[i]]
          /\ \A i, j \in 1..Len(ps) :
                i < j =>
                    LET ki == Lower(out[i][sortField])
                        kj == Lower(out[j][sortField])
                    IN  /\ IF descending THEN ~StrLess(ki, kj)
                           ELSE ~StrLess(kj, ki)
                        /\ (ki = kj => f[i] < f[j])

\* C9: a list sorted by title or content returns a permutation of the
\* collection, non-decreasing in the lower-cased field when the direction is
\* asc or absent and non-increasing when it is desc, posts with equal keys in
\* their order of insertion; the seed state by title desc gives post 2, post 1.
SortedListIsStable ==
    [][(req'.op = "list" /\ req'.sort \in Fields /\ resp'.status = 200) =>
          /\ req'.direction \in {None, "asc", "desc"}
          /\ StablySorted(posts, resp'.body, req'.sort, req'.direction = "desc")
          /\ (/\ posts = SeedPosts
              /\ req'.sort = "title"
              /\ req'.direction = "desc") =>
                 resp'.body = <<SeedPosts[2], SeedPosts[1]>>]_vars

\* a descending list by title of three posts, two of them with titles equal
\* but for the case and kept in their order behind the seed post
SortedListIsStableWitness ==
    /\ req = [op |-> "list", sort |-> "title", direction |-> "desc"]
    /\ resp.status = 200
    /\ Len(posts) = 3
    /\ posts[2].title # posts[3].title
    /\ Lower(posts[2].title) = Lower(posts[3].title)
    /\ resp.body = <<posts[1], posts[2], posts[3]>>

\* query is not empty and is, but for the case, a substring of text
IsIn(query, text) ==
    /\ Len(query) > 0
    /\ \E i \in 1..(Len(text) - Len(query) + 1) :
           \A j \in 1..Len(query) :
               LowerChar(text[i + j - 1]) = LowerChar(query[j])

\* C10: a search answers 200 with exactly the posts whose title has the
\* non-empty title query, or whose content has the non-empty content query,
\* as a substring but for the case, each once and in the order of the
\* collection; two empty queries give no post; the collection is left alone.
SearchReturnsMatches ==
    [][req'.op = "search" =>
          LET out == resp'.body
              M == {k \in 1..Len(posts) :
                       \/ IsIn(req'.title, posts[k].title)
                       \/ IsIn(req'.content, posts[k].content)}
          IN  /\ resp'.status = 200
              /\ posts' = posts
              /\ Len(out) = Cardinality(M)
              /\ \A k \in M :
                     out[Cardinality({m \in M : m <= k})] = posts[k]
              /\ (req'.title = <<>> /\ req'.content = <<>>) => out = <<>>]_vars

\* a search on both fields that returns two of three posts, one for each query
SearchReturnsMatchesWitness ==
    /\ req = [op |-> "search", title |-> <<98>>, content |-> <<83, 69, 67>>]
    /\ Len(posts) = 3
    /\ Len(resp.body) = 2
    /\ resp.body = <<posts[2], posts[3]>>

(***************************************************************************)
(* Properties of the store, two requests at a time                         *)
(***************************************************************************)
Answered(t, op) ==
    pc[t] = "done" /\ loc[t].req.op = op /\ loc[t].resp.status \in {200, 201}

\* of two updates of one post, one of its title and one of its content, both
\* answered 200, both are in the post
NoLostUpdate ==
    \A t, u \in Threads :
        (/\ Answered(t, "update") /\ Answered(u, "update")
         /\ loc[t].req.id = loc[u].req.id
         /\ DOMAIN loc[t].req.data = {"title"}
         /\ DOMAIN loc[u].req.data = {"content"}) =>
            \A k \in 1..Len(posts) :
                posts[k].id = loc[t].req.id =>
                    /\ posts[k].title = loc[t].req.data["title"]
                    /\ posts[k].content = loc[u].req.data["content"]

\* a list or a search answered beside an update that supplies title and
\* content shows the post with both or with neither
NoHalfUpdateRead ==
    \A t, u \in Threads :
        (/\ Answered(t, "list") \/ Answered(t, "search")
         /\ loc[u].req.op = "update"
         /\ DOMAIN loc[u].req.data = Fields) =>
            \A p \in Range(loc[t].resp.body) :
                p.id = loc[u].req.id =>
                    (p.title = loc[u].req.data["title"]
                        <=> p.content = loc[u].req.data["content"])

\* C3: with concurrent callers every create, update and delete is applied
\* atomically: no two posts get the same id, no update is lost and no list or
\* search shows a post with one of the two fields of an update.
RequestsAreAtomic ==
    /\ UniqueIds
    /\ NoLostUpdate
    /\ NoHalfUpdateRead

====
